---- MODULE Spec2Model ----
(***************************************************************************)
(* Model of the Py Dashboard host (main.py, base_module.py).               *)
(*                                                                         *)
(* The host is single threaded.  Handlers run to completion except at the  *)
(* two self.update() calls of Dashboard.reload_layout, where Tk dispatches *)
(* every pending event and so may start another handler before the first   *)
(* one has finished.  The model therefore cuts reload_layout at these two  *)
(* calls and keeps the interrupted activations on a stack; everything      *)
(* between two cuts is one atomic step.                                    *)
(***************************************************************************)
EXTENDS Integers, Sequences, FiniteSets, TLC

VARIABLES
    rootExists,   \* the directory MODULES_PATH exists
    disk,         \* os.listdir(MODULES_PATH): sequence of entries [name, kind]
    screen,       \* <<winfo_screenwidth(), winfo_screenheight()>>
    fullscreen,   \* the window's -fullscreen attribute (set by the window manager only)
    status,       \* "start" | "running" | "crashed" | "exited"
    modules,      \* Dashboard.modules
    frames,       \* Dashboard.frames: sequence of widget ids
    children,     \* winfo_children(): the live widgets, in creation order
    width,        \* Dashboard.width
    height,       \* Dashboard.height
    dark_mode,    \* Dashboard.dark_mode
    bg_color,     \* Dashboard.bg_color
    text_color,   \* Dashboard.text_color
    timerPending, \* the after(10, reload_layout) timer has not fired yet
    queue,        \* key events delivered by the window system, not dispatched yet
    stack,        \* activations of reload_layout suspended in self.update()
    quitCalled,   \* Tk.quit() has been called
    gen,          \* number of create_frames calls so far (names the widgets)
    keys,         \* number of key presses so far
    grid,         \* locals of the last create_frames call
    lastPass,     \* what the last run of the module loop of reload_layout did
    interrupted,  \* a handler was dispatched inside the outermost reload_layout
    snapshot,     \* the layout as toggle_dark_mode found it, while it is the last handler dispatched
    sfile,        \* content of the settings.ini of the module under study
    inst,         \* the BaseModule instance under study
    spc,          \* how far the study of the settings has gone
    saves         \* number of calls of Dashboard.save_settings

vars == <<rootExists, disk, screen, fullscreen, status, modules, frames,
          children, width, height, dark_mode, bg_color, text_color,
          timerPending, queue, stack, quitCalled, gen, keys, grid, lastPass,
          interrupted, snapshot, sfile, inst, spc, saves>>

(* The variables of the host, and those of the study of one module's       *)
(* settings.                                                               *)
hostVars == <<rootExists, disk, screen, fullscreen, status, modules, frames,
              children, width, height, dark_mode, bg_color, text_color,
              timerPending, queue, stack, quitCalled, gen, keys, grid,
              lastPass, interrupted, snapshot>>

settingsVars == <<sfile, inst, spc, saves>>

----------------------------------------------------------------------------
(* Bounds *)

MaxEntries == 2       \* entries under the modules root
MaxLayoutEntries == 6 \* entries under the modules root when only the layout is studied
MaxKeys == 1          \* key presses and resizes in one run
MaxLines == 3         \* lines of a settings.ini

(* Program constants *)

DARK_MODE_BG == "#202020"
DARK_MODE_TEXT == "#ffffff"
LIGHT_MODE_BG == "#f0f0f0"
LIGHT_MODE_TEXT == "#000000"
MODULES_PATH == "modules"
InitialWidth == 800
InitialHeight == 600

None == "None"            \* Python's None, where the other values are strings
NoSpec == [none |-> TRUE] \* None, where the other values are specs
NoFrame == <<>>           \* None, where the other values are widget ids

Min(a, b) == IF a < b THEN a ELSE b
Max(a, b) == IF a > b THEN a ELSE b

(* What an entry of the modules root can be:                               *)
(*   ok         <name>/<name>.py defines a BaseModule subclass that renders *)
(*   nodata     as ok, but display_module may raise ModuleDataNotAvailable  *)
(*   execraise  the top-level code of <name>/<name>.py raises               *)
(*   nosubclass <name>/<name>.py defines no BaseModule subclass             *)
(*   ctorraise  the subclass's constructor (its on_init hook) raises        *)
(*   nofile     there is no <name>/<name>.py (or <name> is not a directory) *)
EntryKinds == {"ok", "nodata", "execraise", "nosubclass", "ctorraise", "nofile"}

Keys == {"r", "Control-d", "Control-f", "Escape"}

(* What the window system delivers: the bound keys and <Configure>, the    *)
(* event of a window resize, for which nothing is bound.                   *)
Events == Keys \cup {"Configure"}

ScreenSizes == {<<1280, 1024>>}

LayoutKinds == {"ok"}

Listings(kinds, max) ==
    {[i \in DOMAIN l |-> [name |-> i, kind |-> l[i]]] :
        l \in UNION {[1..n -> kinds] : n \in 0..max}}

KindOf(name) == disk[name].kind

----------------------------------------------------------------------------
(* importlib.util.spec_from_file_location: the loader is picked from the   *)
(* suffix of the location alone; the file is not looked at.                *)

SourceSuffixes == {"py"}

module_exec_path(module_folder) ==
    [dir |-> <<MODULES_PATH, module_folder>>, stem |-> module_folder, ext |-> "py"]

spec_from_file_location(name, location) ==
    IF location.ext \in SourceSuffixes
    THEN [name |-> name, origin |-> location, loader |-> "SourceFileLoader"]
    ELSE NoSpec

(* DashModule.__init__ *)
DashModule(path, spec) ==
    [path |-> path, name |-> path[2], spec |-> spec, frame |-> NoFrame,
     loader |-> None, sub_module |-> None, sub_class |-> None,
     execs |-> 0, ctors |-> 0]

(* Dashboard.load_modules: the registry built from a listing.  The except  *)
(* branch only logs, so an entry that raised adds nothing.                 *)
RECURSIVE load_modules_from(_, _)
load_modules_from(listing, i) ==
    IF i > Len(listing) THEN <<>>
    ELSE LET module_folder == listing[i].name
             modules_folder == <<MODULES_PATH, module_folder>>
             spec == spec_from_file_location(module_folder,
                                          module_exec_path(module_folder))
             rest == load_modules_from(listing, i + 1)
         IN IF spec = NoSpec
            THEN rest
            ELSE <<DashModule(modules_folder, spec)>> \o rest

(* A slip in load_modules: the listing is walked twice. *)
load_modules_twice(listing) ==
    load_modules_from(listing, 1) \o load_modules_from(listing, 1)

load_modules(listing) == load_modules_from(listing, 1)

----------------------------------------------------------------------------
(* Dashboard.create_frames: the widgets it creates, the list it returns    *)
(* and its locals.  A label is packed with no size option (0 is Tk's       *)
(* "natural size"); a frame is gridded with an explicit width and height.  *)

(* A slip in the column policy: half the modules, rounded up. *)
Cols_rounded_up(modules_amount) == (modules_amount + 1) \div 2

Cols(modules_amount) == Min(modules_amount, Max(modules_amount \div 2, 1))

Rows(modules_amount, cols) == (modules_amount + cols - 1) \div cols

(* A slip in create_frames: the cells are filled column by column. *)
create_frames_column_major(mods, w, h, bg, fg, g) ==
    IF mods = <<>>
    THEN [created |-> <<[id |-> <<g, 0>>, kind |-> "label", manager |-> "pack",
                         row |-> -1, col |-> -1, width |-> 0, height |-> 0,
                         bg |-> bg, fg |-> fg, displays |-> 0]>>,
          result |-> <<>>,
          locals |-> [count |-> 0, cols |-> 0, rows |-> 0, w |-> w, h |-> h]]
    ELSE LET modules_amount == Len(mods)
             cols == Cols(modules_amount)
             rows == Rows(modules_amount, cols)
         IN [created |-> [i \in 1..modules_amount |->
                            [id |-> <<g, i>>, kind |-> "frame", manager |-> "grid",
                             row |-> (i - 1) % rows, col |-> (i - 1) \div rows,
                             width |-> w \div cols, height |-> h \div rows,
                             bg |-> bg, fg |-> fg, displays |-> 0]],
             result |-> [i \in 1..modules_amount |-> <<g, i>>],
             locals |-> [count |-> modules_amount, cols |-> cols, rows |-> rows,
                         w |-> w, h |-> h]]

(* A slip in create_frames: the placeholder label is stretched over the    *)
(* window and returned as if it were a cell.                               *)
create_frames_label_as_cell(mods, w, h, bg, fg, g) ==
    IF mods = <<>>
    THEN [created |-> <<[id |-> <<g, 0>>, kind |-> "label", manager |-> "pack",
                         row |-> -1, col |-> -1, width |-> w, height |-> h,
                         bg |-> bg, fg |-> fg, displays |-> 0]>>,
          result |-> <<<<g, 0>>>>,
          locals |-> [count |-> 0, cols |-> 0, rows |-> 0, w |-> w, h |-> h]]
    ELSE LET modules_amount == Len(mods)
             cols == Cols(modules_amount)
             rows == Rows(modules_amount, cols)
         IN [created |-> [i \in 1..modules_amount |->
                            [id |-> <<g, i>>, kind |-> "frame", manager |-> "grid",
                             row |-> (i - 1) \div cols, col |-> (i - 1) % cols,
                             width |-> w \div cols, height |-> h \div rows,
                             bg |-> bg, fg |-> fg, displays |-> 0]],
             result |-> [i \in 1..modules_amount |-> <<g, i>>],
             locals |-> [count |-> modules_amount, cols |-> cols, rows |-> rows,
                         w |-> w, h |-> h]]

create_frames(mods, w, h, bg, fg, g) ==
    IF mods = <<>>
    THEN [created |-> <<[id |-> <<g, 0>>, kind |-> "label", manager |-> "pack",
                         row |-> -1, col |-> -1, width |-> 0, height |-> 0,
                         bg |-> bg, fg |-> fg, displays |-> 0]>>,
          result |-> <<>>,
          locals |-> [count |-> 0, cols |-> 0, rows |-> 0, w |-> w, h |-> h]]
    ELSE LET modules_amount == Len(mods)
             cols == Cols(modules_amount)
             rows == Rows(modules_amount, cols)
         IN [created |-> [i \in 1..modules_amount |->
                            [id |-> <<g, i>>, kind |-> "frame", manager |-> "grid",
                             row |-> (i - 1) \div cols, col |-> (i - 1) % cols,
                             width |-> w \div cols, height |-> h \div rows,
                             bg |-> bg, fg |-> fg, displays |-> 0]],
             result |-> [i \in 1..modules_amount |-> <<g, i>>],
             locals |-> [count |-> modules_amount, cols |-> cols, rows |-> rows,
                         w |-> w, h |-> h]]

NoSnapshot == [w |-> 0, h |-> 0, cols |-> 0, rows |-> 0, cells |-> <<>>]
Absent == <<"absent">>    \* no settings.ini
NoInstance == [constructed |-> FALSE]

NoGrid == [count |-> 0, cols |-> 0, rows |-> 0, w |-> 0, h |-> 0]
NoPass == [ran |-> FALSE, visited |-> <<>>, aborted |-> None]

----------------------------------------------------------------------------
(* The host before Dashboard() is constructed, for a modules root whose    *)
(* listing is one of the given ones.                                       *)
HostInit(listings) ==
    /\ rootExists \in BOOLEAN
    /\ disk \in listings
    /\ rootExists = FALSE => disk = <<>>
    /\ screen \in ScreenSizes
    /\ fullscreen = FALSE
    /\ status = "start"
    /\ modules = <<>>
    /\ frames = <<>>
    /\ children = <<>>
    /\ width = 0
    /\ height = 0
    /\ dark_mode = FALSE
    /\ bg_color = LIGHT_MODE_BG
    /\ text_color = LIGHT_MODE_TEXT
    /\ timerPending = FALSE
    /\ queue = <<>>
    /\ stack = <<>>
    /\ quitCalled = FALSE
    /\ gen = 0
    /\ keys = 0
    /\ grid = NoGrid
    /\ lastPass = NoPass
    /\ interrupted = FALSE
    /\ snapshot = NoSnapshot

(* The host alone: no module's settings are studied. *)
InitOn(listings) ==
    /\ HostInit(listings)
    /\ sfile = Absent
    /\ inst = NoInstance
    /\ spc = "host"
    /\ saves = 0

Init == InitOn(Listings(EntryKinds, MaxEntries))

(* Only entries that load, any number of them up to MaxLayoutEntries. *)
InitLayout == InitOn(Listings(LayoutKinds, MaxLayoutEntries))

(* Dashboard.__init__ (main.py 188-213).  os.listdir raises when the root  *)
(* is missing; nothing catches it and the process ends with a traceback.   *)
Dashboard_init ==
    /\ status = "start"
    /\ IF ~rootExists
       THEN /\ status' = "crashed"
            /\ UNCHANGED <<modules, frames, children, width, height,
                           timerPending, gen, grid>>
       ELSE LET mods == load_modules(disk)
                cf == create_frames(mods, InitialWidth, InitialHeight,
                                   bg_color, text_color, gen + 1)
            IN /\ status' = "running"
               /\ modules' = mods
               /\ width' = InitialWidth
               /\ height' = InitialHeight
               /\ children' = cf.created
               /\ frames' = cf.result
               /\ grid' = cf.locals
               /\ gen' = gen + 1
               /\ timerPending' = TRUE
    /\ UNCHANGED <<settingsVars, interrupted, snapshot,
                   rootExists, disk, screen, fullscreen, dark_mode, bg_color,
                   text_color, queue, stack, quitCalled, keys, lastPass>>

----------------------------------------------------------------------------
(* A slip in is_loaded: the contract instance is tested, not the module. *)
is_loaded_by_instance(m) == m.sub_class # None

(* DashModule.is_loaded *)
is_loaded(m) == m.sub_module # None

(* DashModule.load_module on a module whose entry is of the given kind.    *)
(* raised: an exception left load_module.  _sub_module is assigned before  *)
(* exec_module runs and stays assigned when exec_module raises.            *)
load_module(m, kind) ==
    IF is_loaded(m)
    THEN [m |-> m, warned |-> TRUE, raised |-> FALSE]
    ELSE LET m1 == [m EXCEPT !.loader = m.spec.loader]
         IN IF m1.loader = None
            THEN [m |-> m1, warned |-> FALSE, raised |-> FALSE]
            ELSE LET m2 == [m1 EXCEPT !.sub_module = "module", !.execs = @ + 1]
                 IN IF kind \in {"nofile", "execraise"}
                    THEN [m |-> m2, warned |-> FALSE, raised |-> FALSE]
                    ELSE IF kind = "nosubclass"
                    THEN [m |-> m2, warned |-> FALSE, raised |-> FALSE]
                    ELSE IF kind = "ctorraise"
                    THEN [m |-> [m2 EXCEPT !.ctors = @ + 1],
                          warned |-> FALSE, raised |-> TRUE]
                    ELSE [m |-> [m2 EXCEPT !.sub_class = "instance",
                                           !.ctors = @ + 1],
                          warned |-> FALSE, raised |-> FALSE]

(* A slip in run: the status is 0 whether or not the module is loaded. *)
run_always_zero(m, frame, nodata) ==
    LET m1 == [m EXCEPT !.frame = frame]
    IN IF m1.sub_class = None
       THEN [m |-> m1, ret |-> 0, dispatched |-> FALSE, raised |-> FALSE]
       ELSE IF nodata
       THEN [m |-> m1, ret |-> -2, dispatched |-> TRUE, raised |-> TRUE]
       ELSE [m |-> m1, ret |-> 0, dispatched |-> TRUE, raised |-> FALSE]

(* DashModule.run.  nodata: display_module raises ModuleDataNotAvailable   *)
(* in this call.  ret is the value returned, -2 when run did not return.   *)
run(m, frame, nodata) ==
    LET m1 == [m EXCEPT !.frame = frame]
    IN IF m1.sub_class = None
       THEN [m |-> m1, ret |-> -1, dispatched |-> FALSE, raised |-> FALSE]
       ELSE IF nodata
       THEN [m |-> m1, ret |-> -2, dispatched |-> TRUE, raised |-> TRUE]
       ELSE [m |-> m1, ret |-> 0, dispatched |-> TRUE, raised |-> FALSE]

(* The loop of reload_layout (main.py 298-300) from position i on.         *)
(* nodataNow: the positions whose display_module raises in this pass.      *)
(* An exception leaving load_module or run ends the loop.                  *)
RECURSIVE module_loop(_, _, _, _)
module_loop(mods, frs, i, nodataNow) ==
    IF i > Min(Len(mods), Len(frs))
    THEN [mods |-> mods, visited |-> <<>>, aborted |-> None]
    ELSE LET before == mods[i]
             ld == load_module(before, KindOf(before.name))
             rn == run(ld.m, frs[i], i \in nodataNow)
             entry == [warned |-> ld.warned,
                       load_failed |-> ~ld.warned /\ ld.m.sub_class = None,
                       load_raised |-> ld.raised,
                       run_called |-> ~ld.raised,
                       ret |-> IF ld.raised THEN -2 ELSE rn.ret,
                       dispatched |-> ~ld.raised /\ rn.dispatched,
                       run_raised |-> ~ld.raised /\ rn.raised,
                       had_instance |-> ld.m.sub_class # None,
                       frame |-> frs[i]]
         IN IF ld.raised
            THEN [mods |-> [mods EXCEPT ![i] = ld.m],
                  visited |-> <<entry>>, aborted |-> "load"]
            ELSE IF rn.raised
            THEN [mods |-> [mods EXCEPT ![i] = rn.m],
                  visited |-> <<entry>>, aborted |-> "render"]
            ELSE LET rest == module_loop([mods EXCEPT ![i] = rn.m], frs,
                                         i + 1, nodataNow)
                 IN [mods |-> rest.mods,
                     visited |-> <<entry>> \o rest.visited,
                     aborted |-> rest.aborted]

(* The widgets after the loop: display_module was called once more on the  *)
(* frame of every visited module whose render was dispatched.              *)
Displayed(ws, visited) ==
    [k \in DOMAIN ws |->
        [ws[k] EXCEPT !.displays =
            @ + Cardinality({j \in DOMAIN visited :
                               visited[j].dispatched /\ visited[j].frame = ws[k].id})]]

----------------------------------------------------------------------------
(* Event dispatch.  The main loop dispatches while no handler is active    *)
(* and quit() has not been called; self.update() inside reload_layout      *)
(* dispatches whatever is pending.                                         *)
CanDispatch ==
    /\ status = "running"
    /\ stack # <<>> \/ ~quitCalled

(* A slip in reload_layout: destroy_frames is not called. *)
BeginReload_keeps_frames ==
    /\ children' = children
    /\ stack' = <<"update1">> \o stack

(* reload_layout up to its first self.update(): destroy_frames. *)
BeginReload ==
    /\ children' = <<>>
    /\ stack' = <<"update1">> \o stack

(* Bookkeeping of a dispatch: whether it happened inside a reload_layout   *)
(* that has not returned, and the layout the handler found.  reloads: the  *)
(* handler calls reload_layout.                                            *)
Dispatched(reloads, found) ==
    /\ interrupted' = IF stack # <<>> THEN TRUE
                      ELSE IF reloads THEN FALSE ELSE interrupted
    /\ snapshot' = found

(* The cells of self.frames, as far as they are alive. *)
CellsOf(frs, ws) ==
    [i \in DOMAIN frs |->
        IF \E k \in DOMAIN ws : ws[k].id = frs[i]
        THEN LET c == ws[CHOOSE k \in DOMAIN ws : ws[k].id = frs[i]]
             IN [row |-> c.row, col |-> c.col, width |-> c.width,
                 height |-> c.height]
        ELSE [row |-> -1, col |-> -1, width |-> 0, height |-> 0]]

(* The window system delivers a key press or a resize. *)
PressKey ==
    /\ status = "running"
    /\ keys < MaxKeys
    /\ \E k \in Events : queue' = Append(queue, k)
    /\ keys' = keys + 1
    /\ UNCHANGED <<settingsVars, interrupted, snapshot,
                   rootExists, disk, screen, fullscreen, status, modules,
                   frames, children, width, height, dark_mode, bg_color,
                   text_color, timerPending, stack, quitCalled, gen, grid,
                   lastPass>>

(* The window manager switches the window's fullscreen state.  The host    *)
(* reads the attribute in toggle_fullscreen only, so only the switches     *)
(* made while <Control-f> is the next event to be dispatched can be told   *)
(* apart.                                                                  *)
WindowManagerFullscreen ==
    /\ status = "running"
    /\ queue # <<>> /\ Head(queue) = "Control-f"
    /\ fullscreen' = ~fullscreen
    /\ UNCHANGED <<settingsVars, interrupted, snapshot,
                   rootExists, disk, screen, status, modules, frames,
                   children, width, height, dark_mode, bg_color, text_color,
                   timerPending, queue, stack, quitCalled, gen, keys, grid,
                   lastPass>>

(* A valid module directory is added to a modules root of fewer than       *)
(* MaxEntries entries while the host runs.  Only an addition made before   *)
(* the reload command could be told apart from the others.                 *)
DiskAdd ==
    /\ status = "running"
    /\ queue # <<>> /\ Head(queue) = "r"
    /\ Len(disk) < MaxEntries
    /\ disk' = Append(disk, [name |-> Len(disk) + 1, kind |-> "ok"])
    /\ UNCHANGED <<settingsVars, interrupted, snapshot, rootExists, screen,
                   fullscreen, status, modules, frames, children, width,
                   height, dark_mode, bg_color, text_color, timerPending,
                   queue, stack, quitCalled, gen, keys, grid, lastPass>>

(* after(10, self.reload_layout) fires (main.py 213). *)
TimerFires ==
    /\ CanDispatch
    /\ timerPending
    /\ timerPending' = FALSE
    /\ BeginReload
    /\ Dispatched(TRUE, NoSnapshot)
    /\ UNCHANGED <<settingsVars, rootExists, disk, screen, fullscreen, status, modules,
                   frames, width, height, dark_mode, bg_color, text_color,
                   queue, quitCalled, gen, keys, grid, lastPass>>

(* A slip in the <r> binding: the reload is not guarded by self.modules. *)
KeyR_unguarded ==
    /\ CanDispatch
    /\ queue # <<>> /\ Head(queue) = "r"
    /\ queue' = Tail(queue)
    /\ BeginReload
    /\ Dispatched(TRUE, NoSnapshot)
    /\ UNCHANGED <<settingsVars, rootExists, disk, screen, fullscreen, status, modules,
                   frames, width, height, dark_mode, bg_color, text_color,
                   timerPending, quitCalled, gen, keys, grid, lastPass>>

(* A slip in the <r> binding: discovery is run again before the reload. *)
KeyR_rediscovers ==
    /\ CanDispatch
    /\ queue # <<>> /\ Head(queue) = "r"
    /\ queue' = Tail(queue)
    /\ modules' = load_modules(disk)
    /\ IF modules # <<>>
       THEN BeginReload
       ELSE UNCHANGED <<children, stack>>
    /\ Dispatched(modules # <<>>, NoSnapshot)
    /\ UNCHANGED <<settingsVars, rootExists, disk, screen, fullscreen, status,
                   frames, width, height, dark_mode, bg_color, text_color,
                   timerPending, quitCalled, gen, keys, grid, lastPass>>

(* <r>: lambda _: self.reload_layout() if self.modules else None (205). *)
KeyR ==
    /\ CanDispatch
    /\ queue # <<>> /\ Head(queue) = "r"
    /\ queue' = Tail(queue)
    /\ IF modules # <<>>
       THEN BeginReload
       ELSE UNCHANGED <<children, stack>>
    /\ Dispatched(modules # <<>>, NoSnapshot)
    /\ UNCHANGED <<settingsVars, rootExists, disk, screen, fullscreen, status, modules,
                   frames, width, height, dark_mode, bg_color, text_color,
                   timerPending, quitCalled, gen, keys, grid, lastPass>>

(* A slip in toggle_dark_mode: the size is set as toggle_fullscreen sets   *)
(* it for a fullscreen window.                                             *)
toggle_dark_mode_resizes ==
    /\ CanDispatch
    /\ queue # <<>> /\ Head(queue) = "Control-d"
    /\ queue' = Tail(queue)
    /\ dark_mode' = ~dark_mode
    /\ IF dark_mode'
       THEN bg_color' = DARK_MODE_BG /\ text_color' = DARK_MODE_TEXT
       ELSE bg_color' = LIGHT_MODE_BG /\ text_color' = LIGHT_MODE_TEXT
    /\ width' = screen[1]
    /\ height' = screen[2]
    /\ BeginReload
    /\ Dispatched(TRUE, [w |-> width, h |-> height, cols |-> grid.cols,
                          rows |-> grid.rows,
                          cells |-> CellsOf(frames, children)])
    /\ UNCHANGED <<settingsVars, rootExists, disk, screen, fullscreen, status, modules,
                   frames, timerPending, quitCalled, gen, keys,
                   grid, lastPass>>

(* <Control-d>: toggle_dark_mode (main.py 312-324). *)
toggle_dark_mode ==
    /\ CanDispatch
    /\ queue # <<>> /\ Head(queue) = "Control-d"
    /\ queue' = Tail(queue)
    /\ dark_mode' = ~dark_mode
    /\ IF dark_mode'
       THEN bg_color' = DARK_MODE_BG /\ text_color' = DARK_MODE_TEXT
       ELSE bg_color' = LIGHT_MODE_BG /\ text_color' = LIGHT_MODE_TEXT
    /\ BeginReload
    /\ Dispatched(TRUE, [w |-> width, h |-> height, cols |-> grid.cols,
                          rows |-> grid.rows,
                          cells |-> CellsOf(frames, children)])
    /\ UNCHANGED <<settingsVars, rootExists, disk, screen, fullscreen, status, modules,
                   frames, width, height, timerPending, quitCalled, gen, keys,
                   grid, lastPass>>

(* <Control-f>: toggle_fullscreen (main.py 302-310). *)
toggle_fullscreen ==
    /\ CanDispatch
    /\ queue # <<>> /\ Head(queue) = "Control-f"
    /\ queue' = Tail(queue)
    /\ width' = IF fullscreen THEN screen[1] ELSE 800
    /\ height' = IF fullscreen THEN screen[2] ELSE 600
    /\ BeginReload
    /\ Dispatched(TRUE, NoSnapshot)
    /\ UNCHANGED <<settingsVars, rootExists, disk, screen, fullscreen, status, modules,
                   frames, dark_mode, bg_color, text_color, timerPending,
                   quitCalled, gen, keys, grid, lastPass>>

(* <Escape>: lambda _: self.quit() (main.py 206). *)
KeyEscape ==
    /\ CanDispatch
    /\ queue # <<>> /\ Head(queue) = "Escape"
    /\ queue' = Tail(queue)
    /\ quitCalled' = TRUE
    /\ Dispatched(FALSE, NoSnapshot)
    /\ UNCHANGED <<settingsVars, rootExists, disk, screen, fullscreen, status, modules,
                   frames, children, width, height, dark_mode, bg_color,
                   text_color, timerPending, stack, gen, keys, grid, lastPass>>

(* <Configure>: the window was resized.  No handler is bound to it, Tk     *)
(* drops the event.                                                        *)
Configure ==
    /\ CanDispatch
    /\ queue # <<>> /\ Head(queue) = "Configure"
    /\ queue' = Tail(queue)
    /\ Dispatched(FALSE, NoSnapshot)
    /\ UNCHANGED <<settingsVars, rootExists, disk, screen,
                   fullscreen, status, modules, frames, children, width,
                   height, dark_mode, bg_color, text_color, timerPending,
                   stack, quitCalled, gen, keys, grid, lastPass>>

(* reload_layout from the return of its first self.update() to its second  *)
(* one: self.frames = self.create_frames() (main.py 294-295).              *)
reload_layout_create ==
    /\ status = "running"
    /\ stack # <<>> /\ Head(stack) = "update1"
    /\ queue = <<>>
    /\ LET cf == create_frames(modules, width, height, bg_color, text_color,
                               gen + 1)
       IN /\ children' = children \o cf.created
          /\ frames' = cf.result
          /\ grid' = cf.locals
    /\ gen' = gen + 1
    /\ stack' = <<"update2">> \o Tail(stack)
    /\ UNCHANGED <<settingsVars, interrupted, snapshot,
                   rootExists, disk, screen, fullscreen, status, modules,
                   width, height, dark_mode, bg_color, text_color,
                   timerPending, queue, quitCalled, keys, lastPass>>

(* reload_layout from the return of its second self.update() to its end:   *)
(* the loop over zip(self.modules, self.frames) (main.py 297-300).  An     *)
(* exception leaving the loop is reported by Tk's callback wrapper and the *)
(* event loop goes on.                                                     *)
reload_layout_run ==
    /\ status = "running"
    /\ stack # <<>> /\ Head(stack) = "update2"
    /\ queue = <<>>
    /\ \E nodataNow \in SUBSET {i \in DOMAIN modules :
                                   KindOf(modules[i].name) = "nodata"} :
          LET lp == module_loop(modules, frames, 1, nodataNow)
          IN /\ modules' = lp.mods
             /\ children' = Displayed(children, lp.visited)
             /\ lastPass' = [ran |-> TRUE, visited |-> lp.visited,
                             aborted |-> lp.aborted]
    /\ stack' = Tail(stack)
    /\ UNCHANGED <<settingsVars, interrupted, snapshot,
                   rootExists, disk, screen, fullscreen, status, frames,
                   width, height, dark_mode, bg_color, text_color,
                   timerPending, queue, quitCalled, gen, keys, grid>>

(* dashboard.mainloop() returns after quit() and main() ends (327-330). *)
MainloopExit ==
    /\ status = "running"
    /\ stack = <<>>
    /\ quitCalled
    /\ status' = "exited"
    /\ UNCHANGED <<settingsVars, interrupted, snapshot,
                   rootExists, disk, screen, fullscreen, modules, frames,
                   children, width, height, dark_mode, bg_color, text_color,
                   timerPending, queue, stack, quitCalled, gen, keys, grid,
                   lastPass>>

Next ==
    \/ Dashboard_init
    \/ PressKey
    \/ WindowManagerFullscreen
    \/ DiskAdd
    \/ TimerFires
    \/ KeyR
    \/ toggle_dark_mode
    \/ toggle_fullscreen
    \/ KeyEscape
    \/ Configure
    \/ reload_layout_create
    \/ reload_layout_run
    \/ MainloopExit

Spec == Init /\ [][Next]_vars

SpecLayout == InitLayout /\ [][Next]_vars

----------------------------------------------------------------------------
(* The settings of one module (base_module.py 20-64, main.py 281-288).     *)
(*                                                                         *)
(* A settings.ini is absent, not decodable as text, or a text of lines: a  *)
(* section header [a], a pair a=b, or a line with no delimiter.  A         *)
(* settings mapping is a set of <<section, key, value>>.                   *)

IniLines ==
    {[t |-> "section", a |-> n, b |-> ""] : n \in {"Module", "Clock"}}
    \cup {[t |-> "pair", a |-> "name", b |-> "Clock"],
          [t |-> "pair", a |-> "version", b |-> "1.0"],
          [t |-> "pair", a |-> "interval", b |-> "5"]}
    \cup {[t |-> "junk", a |-> "", b |-> ""]}

Undecodable == <<"undecodable">>

SettingsFiles ==
    {Absent, Undecodable}
    \cup {<<"text", l>> : l \in UNION {[1..n -> IniLines] : n \in 0..MaxLines}}

SettingsMappings ==
    SUBSET {<<"Module", "name", "Clock">>, <<"Clock", "interval", "5">>}

(* configparser.ConfigParser().read of a text: a pair or a stray line      *)
(* before any header, a repeated section and a repeated option raise at    *)
(* once, a stray line after a header raises once the text is read.         *)
RECURSIVE read_lines(_, _, _, _, _, _)
read_lines(lines, i, cur, secs, items, stray) ==
    IF i > Len(lines)
    THEN IF stray
         THEN [error |-> "ParsingError", sections |-> {}, items |-> {}]
         ELSE [error |-> None, sections |-> secs, items |-> items]
    ELSE LET ln == lines[i]
         IN IF ln.t = "section"
            THEN IF ln.a \in secs
                 THEN [error |-> "DuplicateSectionError", sections |-> {},
                       items |-> {}]
                 ELSE read_lines(lines, i + 1, ln.a, secs \cup {ln.a}, items,
                                 stray)
            ELSE IF cur = ""
            THEN [error |-> "MissingSectionHeaderError", sections |-> {},
                  items |-> {}]
            ELSE IF ln.t = "junk"
            THEN read_lines(lines, i + 1, cur, secs, items, TRUE)
            ELSE IF \E it \in items : it[1] = cur /\ it[2] = ln.a
            THEN [error |-> "DuplicateOptionError", sections |-> {},
                  items |-> {}]
            ELSE read_lines(lines, i + 1, cur, secs,
                            items \cup {<<cur, ln.a, ln.b>>}, stray)

(* config.get("Module", key, fallback=fallback) *)
config_get(cfg, key, fallback) ==
    IF \E it \in cfg.items : it[1] = "Module" /\ it[2] = key
    THEN (CHOOSE it \in cfg.items : it[1] = "Module" /\ it[2] = key)[3]
    ELSE fallback

(* A slip in load_settings: the parse error is logged and raised again. *)
load_settings_reraises(self, file) ==
    IF file = Absent
    THEN [self EXCEPT !.warnings = @ + 1]
    ELSE IF file = Undecodable
    THEN [self EXCEPT !.raised = TRUE]
    ELSE LET cfg == read_lines(file[2], 1, "", {}, {}, FALSE)
         IN IF cfg.error # None
            THEN [self EXCEPT !.errors = @ + 1, !.settings = {},
                              !.raised = TRUE]
            ELSE [self EXCEPT
                    !.name = IF "Module" \in cfg.sections
                             THEN config_get(cfg, "name", self.name) ELSE @,
                    !.version = IF "Module" \in cfg.sections
                                THEN config_get(cfg, "version", self.version)
                                ELSE @,
                    !.description = IF "Module" \in cfg.sections
                                    THEN config_get(cfg, "description",
                                                    self.description)
                                    ELSE @,
                    !.settings = cfg.items]

(* BaseModule.load_settings on an instance whose settings.ini is file.     *)
(* UnicodeDecodeError is neither a configparser.Error nor an OSError and   *)
(* leaves load_settings.                                                   *)
load_settings(self, file) ==
    IF file = Absent
    THEN [self EXCEPT !.warnings = @ + 1]
    ELSE IF file = Undecodable
    THEN [self EXCEPT !.raised = TRUE]
    ELSE LET cfg == read_lines(file[2], 1, "", {}, {}, FALSE)
         IN IF cfg.error # None
            THEN [self EXCEPT !.errors = @ + 1, !.settings = {}]
            ELSE [self EXCEPT
                    !.name = IF "Module" \in cfg.sections
                             THEN config_get(cfg, "name", self.name) ELSE @,
                    !.version = IF "Module" \in cfg.sections
                                THEN config_get(cfg, "version", self.version)
                                ELSE @,
                    !.description = IF "Module" \in cfg.sections
                                    THEN config_get(cfg, "description",
                                                    self.description)
                                    ELSE @,
                    !.settings = cfg.items]

(* BaseModule.__init__: the defaults, load_settings, then on_init. *)
BaseModule(path, file) ==
    LET self == [constructed |-> TRUE, path |-> path, name |-> "Plugin",
                 version |-> "0.0", description |-> "Base module",
                 settings |-> {}, warnings |-> 0, errors |-> 0,
                 raised |-> FALSE, on_init_ran |-> FALSE,
                 save_raised |-> FALSE, reread |-> {}]
        loaded == load_settings(self, file)
    IN IF loaded.raised THEN loaded
       ELSE [loaded EXCEPT !.on_init_ran = TRUE]

(* DashModule.settings_path: the class attribute, never assigned. *)
settings_path(m) == <<>>

(* The file load_settings reads for the module at path. *)
settings_ini(path) == path \o <<"settings.ini">>

(* What save_settings writes for a module: a line key=value for every      *)
(* attribute of the DashModule except name, path and settings_path.        *)
dict_lines(m) ==
    [k \in 1..5 |->
        [t |-> "pair",
         a |-> <<"_spec", "frame", "_loader", "_sub_module", "_sub_class">>[k],
         b |-> "repr"]]

(* Dashboard.save_settings on a registry, as seen from the settings.ini of *)
(* the module under study.  open("", "w") raises FileNotFoundError.        *)
RECURSIVE save_settings(_, _, _)
save_settings(mods, i, file) ==
    IF i > Len(mods)
    THEN [file |-> file, raised |-> FALSE]
    ELSE IF settings_path(mods[i]) = <<>>
    THEN [file |-> file, raised |-> TRUE]
    ELSE save_settings(mods, i + 1,
                       IF settings_path(mods[i]) = settings_ini(mods[i].path)
                       THEN <<"text", dict_lines(mods[i])>>
                       ELSE file)

(* One module directory, its settings.ini any of the files. *)
InitSettings ==
    /\ HostInit({<<[name |-> 1, kind |-> "ok"]>>})
    /\ rootExists
    /\ sfile \in SettingsFiles
    /\ inst = NoInstance
    /\ spc = "start"
    /\ saves = 0

(* load_module constructs the module's class (main.py 163). *)
BaseModule_init ==
    /\ spc = "start"
    /\ inst' = BaseModule(<<MODULES_PATH, 1>>, sfile)
    /\ spc' = IF inst'.raised THEN "raised" ELSE "constructed"
    /\ UNCHANGED <<hostVars, sfile, saves>>

(* The module's own code changes its settings. *)
ModuleSetsSettings ==
    /\ spc = "constructed"
    /\ \E m \in SettingsMappings : inst' = [inst EXCEPT !.settings = m]
    /\ spc' = "changed"
    /\ UNCHANGED <<hostVars, sfile, saves>>

(* Dashboard.save_settings is called on the registry of this module. *)
SaveSettings ==
    /\ spc \in {"constructed", "changed"}
    /\ LET r == save_settings(load_modules(disk), 1, sfile)
       IN /\ sfile' = r.file
          /\ inst' = [inst EXCEPT !.save_raised = r.raised]
    /\ saves' = saves + 1
    /\ spc' = "saved"
    /\ UNCHANGED hostVars

(* The settings are read back by load_settings. *)
ReloadSettings ==
    /\ spc = "saved"
    /\ LET fresh == [inst EXCEPT !.settings = {}, !.raised = FALSE]
           again == load_settings(fresh, sfile)
       IN inst' = [inst EXCEPT !.reread = again.settings]
    /\ spc' = "reloaded"
    /\ UNCHANGED <<hostVars, sfile, saves>>

NextSettings ==
    \/ BaseModule_init
    \/ ModuleSetsSettings
    \/ SaveSettings
    \/ ReloadSettings

SpecSettings == InitSettings /\ [][NextSettings]_vars

----------------------------------------------------------------------------
(* Vocabulary of the properties *)

IsLive(id) == \E k \in DOMAIN children : children[k].id = id

Widget(id) == children[CHOOSE k \in DOMAIN children : children[k].id = id]

(* self.frames is the result of a create_frames call whose frames have     *)
(* not been destroyed since.                                               *)
FramesLive == frames # <<>> /\ \A i \in DOMAIN frames : IsLive(frames[i])

(* The widgets alive that the create_frames call number g created. *)
CreatedBy(g) == {k \in DOMAIN children : children[k].id[1] = g}

(* C1: for N >= 1 modules in the registry a layout pass creates exactly N  *)
(* cells, the i-th module (0-based) gets the cell at row i div cols and    *)
(* column i mod cols, and 1 <= cols <= N and cols * rows >= N.             *)
C1_RowMajorCells ==
    (modules # <<>> /\ FramesLive) =>
        LET N == Len(modules)
        IN /\ Len(frames) = N
           /\ Cardinality(CreatedBy(frames[1][1])) = N
           /\ \A i, j \in DOMAIN frames : frames[i] = frames[j] => i = j
           /\ 1 <= grid.cols /\ grid.cols <= N
           /\ grid.cols * grid.rows >= N
           /\ \A i \in DOMAIN frames :
                 /\ Widget(frames[i]).kind = "frame"
                 /\ Widget(frames[i]).row = (i - 1) \div grid.cols
                 /\ Widget(frames[i]).col = (i - 1) % grid.cols

C1_Witness ==
    /\ Len(modules) = 4
    /\ FramesLive
    /\ lastPass.ran /\ stack = <<>>
    /\ Widget(frames[4]).row = 1 /\ Widget(frames[4]).col = 1

C4_NoDuplicateSurfaces ==
    (status = "running" /\ stack = <<>> /\ modules # <<>>) =>
        /\ Len(children) = Len(modules)
        /\ \A k \in DOMAIN children : children[k].displays <= 1

(* C5: a module whose load fails never stops the pass: in a pass in which  *)
(* no render raises, if loading some module failed then every module of    *)
(* the registry was still visited (loaded and run) in that pass.           *)
C5_LoadFailuresIsolated ==
    (lastPass.ran /\ lastPass.aborted # "render"
        /\ \E k \in DOMAIN lastPass.visited : lastPass.visited[k].load_failed) =>
        /\ Len(lastPass.visited) = Len(modules)
        /\ \A j \in DOMAIN lastPass.visited : lastPass.visited[j].run_called

(* C6: when a module's render raises ModuleDataNotAvailable in a pass,     *)
(* every other loaded module is still rendered in that pass.               *)
C6_NoDataIsRecoverable ==
    (lastPass.ran /\ \E k \in DOMAIN lastPass.visited : lastPass.visited[k].run_raised) =>
        \A j \in DOMAIN modules :
            modules[j].sub_class # None =>
                /\ j \in DOMAIN lastPass.visited
                /\ lastPass.visited[j].dispatched

(* C7: a module whose top-level code raised during load is not reported    *)
(* as loaded by is_loaded(), and its top-level code is not run again.      *)
C7_FailedIsNotLoaded ==
    \A i \in DOMAIN modules :
        (KindOf(modules[i].name) = "execraise" /\ modules[i].execs >= 1) =>
            /\ ~is_loaded(modules[i])
            /\ modules[i].execs = 1

(* C8: load_module on an already loaded module only warns, so the          *)
(* top-level code of a module runs at most once and at most one contract   *)
(* instance is constructed per module, whatever passes happen.             *)
C8_LoadedOnce ==
    /\ \A i \in DOMAIN modules :
          /\ modules[i].execs <= 1
          /\ modules[i].ctors <= 1
          /\ is_loaded(modules[i]) =>
                LET again == load_module(modules[i], KindOf(modules[i].name))
                IN again.m = modules[i] /\ again.warned /\ ~again.raised
    /\ \A j \in DOMAIN lastPass.visited :
          lastPass.visited[j].warned =>
              /\ ~lastPass.visited[j].load_raised
              /\ modules[j].execs = 1

C8_Witness ==
    /\ lastPass.ran
    /\ \E j \in DOMAIN lastPass.visited :
          /\ lastPass.visited[j].warned
          /\ KindOf(modules[j].name) = "execraise"
          /\ modules[j].execs = 1

(* C9: run returns 0 exactly when display_module was dispatched and        *)
(* returned, and -1 exactly when the module has no contract instance; in   *)
(* that case display_module is not called.                                 *)
C9_RunStatus ==
    \A j \in DOMAIN lastPass.visited :
        LET v == lastPass.visited[j]
        IN v.run_called =>
              /\ v.ret = 0 <=> (v.dispatched /\ ~v.run_raised)
              /\ v.ret = -1 <=> ~v.had_instance
              /\ v.ret = -1 => ~v.dispatched
              /\ v.ret = -1 => (IsLive(v.frame) => Widget(v.frame).displays = 0)
              /\ modules[j].sub_class = None <=> ~v.had_instance

C9_Witness ==
    /\ lastPass.ran
    /\ \E j, k \in DOMAIN lastPass.visited :
          /\ lastPass.visited[j].ret = 0 /\ lastPass.visited[j].dispatched
          /\ lastPass.visited[k].ret = -1 /\ ~lastPass.visited[k].dispatched

(* C10: an entry of the modules root without an entry-point file           *)
(* <name>/<name>.py gets no registry entry, and the other entries are      *)
(* still discovered.                                                       *)
C10_NoEntryPointExcluded ==
    status = "running" =>
        /\ \A i \in DOMAIN modules : KindOf(modules[i].name) # "nofile"
        /\ \A e \in DOMAIN disk :
              disk[e].kind # "nofile" =>
                  \E i \in DOMAIN modules : modules[i].name = disk[e].name

(* An outermost reload_layout has returned, nothing was dispatched inside  *)
(* it and no exception left its loop.                                      *)
CleanPassDone ==
    /\ status = "running"
    /\ stack = <<>>
    /\ lastPass.ran
    /\ ~interrupted
    /\ lastPass.aborted = None

Loaded == {i \in DOMAIN modules : modules[i].sub_class # None}

(* C11: failed modules get no cell: after a layout pass there is one cell  *)
(* per successfully loaded module, and when no module loaded successfully  *)
(* the layout is the single placeholder.                                   *)
C11_FailedExcludedFromLayout ==
    CleanPassDone =>
        IF Loaded = {}
        THEN Len(children) = 1 /\ children[1].kind = "label"
        ELSE /\ Len(children) = Cardinality(Loaded)
             /\ \A k \in DOMAIN children : children[k].kind = "frame"

(* C12: when the event loop has ended after Escape, save_settings has run  *)
(* for the modules of the registry.                                        *)
C12_SaveOnQuit ==
    (status = "exited" /\ modules # <<>>) => saves >= 1

(* C14: the registry never holds two entries with the same descriptor      *)
(* identifier (module directory path).                                     *)
C14_UniqueDescriptors ==
    \A i, j \in DOMAIN modules :
        (modules[i].path = modules[j].path \/ modules[i].name = modules[j].name)
            => i = j

C14_Witness ==
    /\ Len(modules) = 2
    /\ status = "running" /\ stack = <<>>
    /\ lastPass.ran
    /\ dark_mode

(* C15: with the modules root missing at start-up the host does not crash: *)
(* it runs with an empty registry and shows the placeholder.               *)
C15_MissingRootEmptyState ==
    (~rootExists /\ status # "start") =>
        /\ status \in {"running", "exited"}
        /\ modules = <<>>
        /\ status = "running" /\ stack = <<>> =>
              \E k \in DOMAIN children : children[k].kind = "label"

(* C17: after a layout pass that nothing interrupted and in which no       *)
(* module raised, no surface of an earlier pass is alive, the live         *)
(* surfaces are exactly the cells of the new layout, every loaded module   *)
(* was rendered exactly once into its new cell, and no handler is active.  *)
C17_CleanPass ==
    CleanPassDone =>
        /\ \A k \in DOMAIN children : children[k].id[1] = gen
        /\ IF modules = <<>>
           THEN /\ Len(children) = 1 /\ children[1].kind = "label"
                /\ frames = <<>>
           ELSE /\ Len(children) = Len(modules)
                /\ frames = [i \in DOMAIN modules |-> children[i].id]
                /\ Len(lastPass.visited) = Len(modules)
                /\ \A i \in DOMAIN modules :
                      /\ modules[i].frame = frames[i]
                      /\ children[i].kind = "frame"
                      /\ children[i].displays =
                            IF modules[i].sub_class # None THEN 1 ELSE 0

(* The second pass after start-up: the frames of the first one had been    *)
(* rendered into and are gone.                                             *)
C17_Witness ==
    /\ CleanPassDone
    /\ gen = 3
    /\ Len(modules) = 2
    /\ \E i, j \in DOMAIN modules :
          /\ modules[i].sub_class # None /\ children[i].displays = 1
          /\ modules[j].sub_class = None /\ children[j].displays = 0

(* A step that dispatches the event at the head of the queue. *)
Dispatches(ev) ==
    /\ status = "running"
    /\ queue # <<>> /\ Head(queue) = ev
    /\ queue' = Tail(queue)

ReloadBegins == stack' = <<"update1">> \o stack /\ children' = <<>>

C19_ThemeKeepsGeometry ==
    /\ dark_mode => bg_color = DARK_MODE_BG /\ text_color = DARK_MODE_TEXT
    /\ ~dark_mode => bg_color = LIGHT_MODE_BG /\ text_color = LIGHT_MODE_TEXT
    /\ (snapshot # NoSnapshot /\ ~interrupted) =>
          /\ width = snapshot.w
          /\ height = snapshot.h
          /\ (stack = <<>> \/ Head(stack) = "update2") =>
                /\ grid.cols = snapshot.cols
                /\ grid.rows = snapshot.rows
                /\ CellsOf(frames, children) = snapshot.cells
                /\ \A k \in DOMAIN children :
                      children[k].id[1] = gen =>
                          children[k].bg = bg_color /\ children[k].fg = text_color

C19_Witness ==
    /\ snapshot # NoSnapshot /\ ~interrupted
    /\ status = "running" /\ stack = <<>>
    /\ Len(modules) = 2
    /\ dark_mode /\ bg_color = DARK_MODE_BG
    /\ CellsOf(frames, children) = snapshot.cells
    /\ snapshot.cells[2].row = 1 /\ snapshot.cells[2].height = 300

(* C20: once the host runs, no step adds, removes or reorders the entries  *)
(* of Dashboard.modules; a directory added to the root is not picked up.   *)
C20_RegistryFixed ==
    [][status = "running" =>
          /\ Len(modules') = Len(modules)
          /\ \A i \in DOMAIN modules :
                /\ modules'[i].path = modules[i].path
                /\ modules'[i].name = modules[i].name
                /\ modules'[i].spec = modules[i].spec]_vars

(* The reload command has run its pass after a directory was added. *)
C20_Witness ==
    /\ status = "running" /\ stack = <<>> /\ queue = <<>>
    /\ modules # <<>>
    /\ Len(disk) > Len(modules)
    /\ lastPass.ran /\ ~timerPending

(* A text with a structural error: a stray line, a first line that is not  *)
(* a section header, a section given twice, or a key given twice in one    *)
(* section.                                                                *)
StructurallyBad(lines) ==
    \/ \E i \in DOMAIN lines : lines[i].t = "junk"
    \/ lines # <<>> /\ lines[1].t # "section"
    \/ \E i, j \in DOMAIN lines :
          i < j /\ lines[i].t = "section" /\ lines[j] = lines[i]
    \/ \E i, j \in DOMAIN lines :
          /\ i < j
          /\ lines[i].t = "pair" /\ lines[j].t = "pair"
          /\ lines[i].a = lines[j].a
          /\ \A k \in (i + 1)..(j - 1) : lines[k].t # "section"

(* C13: what load_settings reads back after save_settings is the settings  *)
(* mapping the module had.                                                 *)
C13_SettingsRoundTrip ==
    spc = "reloaded" => inst.reread = inst.settings

(* C16: load_settings does not raise on an absent settings.ini or on one   *)
(* with a structural parse error: the module has empty settings, a warning *)
(* (absent) or an error (parse error) was logged, and on_init has run.     *)
C16_SoftSettingsLoad ==
    spc \in {"constructed", "raised"} =>
        /\ sfile = Absent =>
              /\ spc = "constructed" /\ ~inst.raised
              /\ inst.settings = {}
              /\ inst.warnings = 1 /\ inst.errors = 0
              /\ inst.on_init_ran
        /\ (sfile[1] = "text" /\ StructurallyBad(sfile[2])) =>
              /\ spc = "constructed" /\ ~inst.raised
              /\ inst.settings = {}
              /\ inst.errors = 1 /\ inst.warnings = 0
              /\ inst.on_init_ran
        /\ (sfile[1] = "text" /\ ~StructurallyBad(sfile[2])) =>
              /\ spc = "constructed"
              /\ inst.errors = 0 /\ inst.warnings = 0

(* A key given twice under a header: DuplicateOptionError, caught. *)
C16_Witness ==
    /\ spc = "constructed"
    /\ sfile[1] = "text"
    /\ Len(sfile[2]) = 3
    /\ sfile[2][1].t = "section" /\ sfile[2][2].t = "pair"
    /\ sfile[2][3] = sfile[2][2]
    /\ inst.errors = 1 /\ inst.settings = {} /\ inst.on_init_ran
====
